---- MODULE Spec2Model ----
(***************************************************************************)
(* A model of the benchmark analysis engine of analyze_benchmarks.py:      *)
(* load_results, compare_implementations, calculate_speedup,               *)
(* analyze_scalability, print_category_summary, print_overall_summary,     *)
(* print_scalability_analysis and identify_optimization_opportunities.     *)
(*                                                                         *)
(* Strings are sequences of one-character strings, so that str.replace and *)
(* str.startswith act on them as they do in Python.  Numbers computed by   *)
(* the engine are exact rationals extended with +inf (float('inf')); the   *)
(* scores and sizes of the input sets are chosen so that the IEEE results  *)
(* compare with the thresholds 0, 5, -5 and -20 as the exact ones do.      *)
(* The fields error and unit of BenchmarkResult are only displayed and are *)
(* not part of the state.                                                  *)
(***************************************************************************)
EXTENDS Integers, Sequences, FiniteSets, TLC

VARIABLES pc, results, comparisons, scalability, table, summary, ranking,
          opportunities, raised

vars == <<pc, results, comparisons, scalability, table, summary, ranking,
          opportunities, raised>>

\* None, comparable with a BenchmarkResult
None == [none |-> TRUE]

(***************************************************************************)
(* Strings                                                                 *)
(***************************************************************************)
Our == <<"o", "u", "r">>
RxJava == <<"r", "x", "J", "a", "v", "a">>
Dot == <<".">>

\* str.startswith(prefix)
StartsWith(s, prefix) ==
  /\ Len(prefix) <= Len(s)
  /\ SubSeq(s, 1, Len(prefix)) = prefix

\* str.replace(old, ''): every non-overlapping occurrence of old, scanning
\* from the left, is removed.
RECURSIVE Replace(_, _)
Replace(s, old) ==
  IF Len(s) < Len(old) THEN s
  ELSE IF SubSeq(s, 1, Len(old)) = old
       THEN Replace(SubSeq(s, Len(old) + 1, Len(s)), old)
       ELSE <<Head(s)>> \o Replace(Tail(s), old)

\* The character codes of the characters the input sets use (str comparison
\* in sorted() is by code point).
Ord(c) ==
  CASE c = "." -> 46 [] c = "G" -> 71 [] c = "J" -> 74 [] c = "M" -> 77
    [] c = "Z" -> 90 [] c = "a" -> 97 [] c = "e" -> 101 [] c = "i" -> 105
    [] c = "o" -> 111 [] c = "p" -> 112 [] c = "r" -> 114 [] c = "t" -> 116
    [] c = "u" -> 117 [] c = "v" -> 118 [] c = "x" -> 120

\* s < t for two strings
RECURSIVE StrLess(_, _)
StrLess(s, t) ==
  IF t = <<>> THEN FALSE
  ELSE IF s = <<>> THEN TRUE
  ELSE IF Head(s) = Head(t) THEN StrLess(Tail(s), Tail(t))
  ELSE Ord(Head(s)) < Ord(Head(t))

(***************************************************************************)
(* Numbers: rationals num/den in lowest terms with den > 0, and +inf       *)
(***************************************************************************)
Abs(x) == IF x < 0 THEN -x ELSE x

RECURSIVE GCD(_, _)
GCD(a, b) == IF b = 0 THEN a ELSE GCD(b, a % b)

Inf == [inf |-> TRUE, num |-> 1, den |-> 0]

Rat(n, d) ==
  LET g == GCD(Abs(n), Abs(d))
      s == IF d < 0 THEN -1 ELSE 1
  IN [inf |-> FALSE, num |-> (s * n) \div g, den |-> (s * d) \div g]

Num(n) == Rat(n, 1)

\* a < b
Less(a, b) ==
  IF a.inf THEN FALSE
  ELSE IF b.inf THEN TRUE
  ELSE a.num * b.den < b.num * a.den

\* a + b, a - b (b finite), a * b (b finite and positive), a / b (b finite
\* and positive): the cases the engine evaluates.
RAdd(a, b) ==
  IF a.inf \/ b.inf THEN Inf
  ELSE Rat(a.num * b.den + b.num * a.den, a.den * b.den)

RSub(a, b) ==
  IF a.inf THEN Inf
  ELSE Rat(a.num * b.den - b.num * a.den, a.den * b.den)

RMul(a, b) ==
  IF a.inf THEN Inf
  ELSE Rat(a.num * b.num, a.den * b.den)

RDiv(a, b) ==
  IF a.inf THEN Inf
  ELSE Rat(a.num * b.den, a.den * b.num)

RECURSIVE SumSeq(_)
SumSeq(s) == IF s = <<>> THEN Num(0) ELSE RAdd(Head(s), SumSeq(Tail(s)))

\* statistics.mean of a non-empty list
Mean(s) == RDiv(SumSeq(s), Num(Len(s)))

\* The orders sorted() is used with: numbers; pairs <<name, number>> by
\* key=lambda x: x[1]; tuples (size, score); strings; integers.
LessAs(kind, a, b) ==
  CASE kind = "number" -> Less(a, b)
    [] kind = "second" -> Less(a[2], b[2])
    [] kind = "tuple" -> a[1] < b[1] \/ (a[1] = b[1] /\ a[2] < b[2])
    [] kind = "str" -> StrLess(a, b)
    [] kind = "int" -> a < b

\* sorted(): a stable sort, as an insertion sort that places an element
\* after the elements it is not less than.
RECURSIVE InsertStable(_, _, _)
InsertStable(x, s, kind) ==
  IF s = <<>> THEN <<x>>
  ELSE IF LessAs(kind, x, s[Len(s)])
       THEN Append(InsertStable(x, SubSeq(s, 1, Len(s) - 1), kind), s[Len(s)])
       ELSE Append(s, x)

RECURSIVE SortedBy(_, _)
SortedBy(s, kind) ==
  IF s = <<>> THEN <<>>
  ELSE InsertStable(s[Len(s)], SortedBy(SubSeq(s, 1, Len(s) - 1), kind), kind)

\* statistics.median of a non-empty list
Median(s) ==
  LET d == SortedBy(s, "number")
      n == Len(d)
  IN IF n % 2 = 1 THEN d[(n \div 2) + 1]
     ELSE RDiv(RAdd(d[n \div 2], d[(n \div 2) + 1]), Num(2))

RECURSIVE MaxOf(_)
MaxOf(s) ==
  IF Len(s) = 1 THEN s[1]
  ELSE LET m == MaxOf(Tail(s)) IN IF Less(Head(s), m) THEN m ELSE Head(s)

RECURSIVE MinOf(_)
MinOf(s) ==
  IF Len(s) = 1 THEN s[1]
  ELSE LET m == MinOf(Tail(s)) IN IF Less(m, Head(s)) THEN m ELSE Head(s)

(***************************************************************************)
(* load_results: one BenchmarkResult per item of the JSON file.  An item   *)
(* is given by its method name, its category (the class name without the   *)
(* Benchmark token), its size parameter (a string of digits, Absent when   *)
(* params holds none) and its score.                                       *)
(***************************************************************************)
\* item['params'] holds no 'size'
Absent == <<>>

DefaultSize == 100

DigitValue(c) == CHOOSE d \in 0..9 : <<"0", "1", "2", "3", "4", "5", "6", "7", "8", "9">>[d + 1] = c

\* int(s) of a string of decimal digits
RECURSIVE ParseInt(_)
ParseInt(s) ==
  IF Len(s) = 1 THEN DigitValue(s[1])
  ELSE 10 * ParseInt(SubSeq(s, 1, Len(s) - 1)) + DigitValue(s[Len(s)])

ImplType(method_name) ==
  IF StartsWith(method_name, Our) THEN "our"
  ELSE IF StartsWith(method_name, RxJava) THEN "rxJava"
  ELSE "unknown"

BenchmarkResult(item) ==
  [benchmark |-> item.method,
   category  |-> item.category,
   impl_type |-> ImplType(item.method),
   size      |-> IF item.size = Absent THEN DefaultSize ELSE ParseInt(item.size),
   score     |-> item.score]

\* group_by_category(results)[category]
group_by_category(rs, category) == SelectSeq(rs, LAMBDA r : r.category = category)

Categories(rs) == {rs[i].category : i \in DOMAIN rs}

(***************************************************************************)
(* Dictionaries keep the order in which their keys were first inserted: a  *)
(* dictionary is a sequence of entries [key, val] with distinct keys.      *)
(***************************************************************************)
HasKey(d, k) == \E i \in DOMAIN d : d[i].key = k

IndexOfKey(d, k) == CHOOSE i \in DOMAIN d : d[i].key = k

Get(d, k) == d[IndexOfKey(d, k)].val

\* d[k] = v
Put(d, k, v) ==
  IF HasKey(d, k) THEN [d EXCEPT ![IndexOfKey(d, k)].val = v]
  ELSE Append(d, [key |-> k, val |-> v])

\* d[k] of a defaultdict whose factory gives dflt
GetDefault(d, k, dflt) == IF HasKey(d, k) THEN Get(d, k) ELSE dflt

Keys(d) == [i \in DOMAIN d |-> d[i].key]

(***************************************************************************)
(* compare_implementations                                                 *)
(***************************************************************************)
\* r.benchmark.replace('our', '').replace('rxJava', '')
StripBase(benchmark) == Replace(Replace(benchmark, Our), RxJava)

\* f"{r.category}.{base_name}"
CompareKey(r) == r.category \o Dot \o StripBase(r.benchmark)

\* comparisons[key][r.size][r.impl_type] = r
CompareInsert(c, r) ==
  LET key == CompareKey(r)
      sizes_data == GetDefault(c, key, <<>>)
      impls == GetDefault(sizes_data, r.size, <<>>)
  IN Put(c, key, Put(sizes_data, r.size, Put(impls, r.impl_type, r)))

RECURSIVE compare_implementations(_)
compare_implementations(rs) ==
  IF rs = <<>> THEN <<>>
  ELSE CompareInsert(compare_implementations(SubSeq(rs, 1, Len(rs) - 1)),
                     rs[Len(rs)])

(***************************************************************************)
(* calculate_speedup                                                       *)
(***************************************************************************)
\* The ratio in percent, without the "- 1" that makes it an improvement.
calculate_speedup_as_ratio(our_score, rxjava_score) ==
  IF rxjava_score = 0 THEN Inf
  ELSE RMul(RDiv(Num(our_score), Num(rxjava_score)), Num(100))

calculate_speedup(our_score, rxjava_score) ==
  IF rxjava_score = 0 THEN Inf
  ELSE RMul(RSub(RDiv(Num(our_score), Num(rxjava_score)), Num(1)), Num(100))

\* The cells of all_comparisons in the order the nested loops
\* "for bench_key, sizes_data in ...: for size, impls in ..." visit them.
RECURSIVE CellsOf(_)
CellsOf(c) ==
  IF c = <<>> THEN <<>>
  ELSE LET last == c[Len(c)]
       IN CellsOf(SubSeq(c, 1, Len(c) - 1)) \o
          [i \in DOMAIN last.val |->
             [key |-> last.key, size |-> last.val[i].key, impls |-> last.val[i].val]]

\* 'our' in impls and 'rxJava' in impls
IsComplete(cell) == HasKey(cell.impls, "our") /\ HasKey(cell.impls, "rxJava")

CellSpeedup(cell) ==
  calculate_speedup(Get(cell.impls, "our").score, Get(cell.impls, "rxJava").score)

(***************************************************************************)
(* print_overall_summary                                                   *)
(***************************************************************************)
\* The lower threshold written without its sign: elif speedup < 5.
WinClassUnsignedBand(speedup) ==
  IF Less(Num(5), speedup) THEN "our"
  ELSE IF Less(speedup, Num(5)) THEN "rxJava"
  ELSE "tie"

\* if speedup > 5 ... elif speedup < -5 ... else ...
WinClass(speedup) ==
  IF Less(Num(5), speedup) THEN "our"
  ELSE IF Less(speedup, Num(-5)) THEN "rxJava"
  ELSE "tie"

\* The speedups list after the loop: one entry per complete cell.
SummarySpeedups(c) ==
  LET complete == SelectSeq(CellsOf(c), IsComplete)
  IN [i \in DOMAIN complete |-> CellSpeedup(complete[i])]

\* The wins counters after the loop.
SummaryWins(c) ==
  LET s == SummarySpeedups(c)
      count(class) == Cardinality({i \in DOMAIN s : WinClass(s[i]) = class})
  IN [our |-> count("our"), rxJava |-> count("rxJava"), tie |-> count("tie")]

\* wins[...] / total * 100
Percent(n, total) == RMul(RDiv(Num(n), Num(total)), Num(100))

\* What print_overall_summary has computed when it returns or raises: the
\* percentages are absent (<<>>) when the division by total raised, the
\* statistics are absent when speedups is empty.
print_overall_summary(c) ==
  LET wins == SummaryWins(c)
      speedups == SummarySpeedups(c)
      total == wins.our + wins.rxJava + wins.tie
  IN [wins |-> wins,
      speedups |-> speedups,
      total |-> total,
      pct |-> IF total = 0 THEN <<>>
              ELSE <<Percent(wins.our, total), Percent(wins.rxJava, total),
                     Percent(wins.tie, total)>>,
      stats |-> IF total = 0 \/ speedups = <<>> THEN <<>>
                ELSE <<Mean(speedups), Median(speedups), MaxOf(speedups),
                       MinOf(speedups)>>]

\* wins['our']/total raises ZeroDivisionError when total is 0
print_overall_summary_raises(c) ==
  LET wins == SummaryWins(c) IN wins.our + wins.rxJava + wins.tie = 0

(***************************************************************************)
(* identify_optimization_opportunities                                     *)
(***************************************************************************)
Digits == <<"0", "1", "2", "3", "4", "5", "6", "7", "8", "9">>

\* str(n) of a non-negative integer
RECURSIVE IntToStr(_)
IntToStr(n) ==
  IF n < 10 THEN <<Digits[n + 1]>>
  ELSE IntToStr(n \div 10) \o <<Digits[(n % 10) + 1]>>

\* f"{bench_key} (size={size})"
OpportunityName(bench_key, size) ==
  bench_key \o <<" ", "(", "s", "i", "z", "e", "=">> \o IntToStr(size) \o <<")">>

\* if speedup < -20
IsOpportunity(speedup) == Less(speedup, Num(-20))

\* The opportunities list before it is sorted.
RECURSIVE OpportunitiesOf(_)
OpportunitiesOf(cells) ==
  IF cells = <<>> THEN <<>>
  ELSE LET cell == cells[Len(cells)]
           rest == OpportunitiesOf(SubSeq(cells, 1, Len(cells) - 1))
       IN IF IsComplete(cell) /\ IsOpportunity(CellSpeedup(cell))
          THEN Append(rest, <<OpportunityName(cell.key, cell.size), CellSpeedup(cell)>>)
          ELSE rest

\* The list returned as collected, without the final sort.
identify_without_sort(c) == OpportunitiesOf(CellsOf(c))

\* sorted(opportunities, key=lambda x: x[1])
identify_optimization_opportunities(c) ==
  SortedBy(OpportunitiesOf(CellsOf(c)), "second")

(***************************************************************************)
(* print_category_summary                                                  *)
(***************************************************************************)
\* benchmarks[base_name].append(r) for the records of one category
RECURSIVE BenchmarksByBase(_)
BenchmarksByBase(rs) ==
  IF rs = <<>> THEN <<>>
  ELSE LET r == rs[Len(rs)]
           d == BenchmarksByBase(SubSeq(rs, 1, Len(rs) - 1))
           base_name == StripBase(r.benchmark)
       IN Put(d, base_name, Append(GetDefault(d, base_name, <<>>), r))

\* lambda: {'our': None, 'rxJava': None}
NoImpls == <<[key |-> "our", val |-> None], [key |-> "rxJava", val |-> None]>>

\* by_size[r.size][r.impl_type] = r for the records of one base name
RECURSIVE BySize(_)
BySize(rs) ==
  IF rs = <<>> THEN <<>>
  ELSE LET r == rs[Len(rs)]
           d == BySize(SubSeq(rs, 1, Len(rs) - 1))
       IN Put(d, r.size, Put(GetDefault(d, r.size, NoImpls), r.impl_type, r))

\* "NUESTRA" if speedup > 0 else "RxJava"
TableWinner(speedup) == IF Less(Num(0), speedup) THEN "NUESTRA" ELSE "RxJava"

\* One printed line of the table (the scores are printed as they are).
TableRow(bench_name, size, impls) ==
  LET our == Get(impls, "our")
      rxjava == Get(impls, "rxJava")
      both == our # None /\ rxjava # None
  IN [bench   |-> bench_name,
      size    |-> size,
      our     |-> IF our # None THEN <<our.score>> ELSE <<>>,
      rxJava  |-> IF rxjava # None THEN <<rxjava.score>> ELSE <<>>,
      speedup |-> IF both THEN <<calculate_speedup(our.score, rxjava.score)>> ELSE <<>>,
      winner  |-> IF both THEN TableWinner(calculate_speedup(our.score, rxjava.score))
                  ELSE ""]

\* The lines of one benchmark: for size in sorted(by_size.keys())
BenchRows(bench_name, bench_results) ==
  LET by_size == BySize(bench_results)
      sizes == SortedBy(Keys(by_size), "int")
  IN [i \in DOMAIN sizes |-> TableRow(bench_name, sizes[i], Get(by_size, sizes[i]))]

RECURSIVE RowsOfBenchmarks(_, _)
RowsOfBenchmarks(names, benchmarks) ==
  IF names = <<>> THEN <<>>
  ELSE BenchRows(Head(names), Get(benchmarks, Head(names)))
       \o RowsOfBenchmarks(Tail(names), benchmarks)

\* The lines print_category_summary prints for the records of a category:
\* for bench_name in sorted(benchmarks.keys())
print_category_summary(category_results) ==
  LET benchmarks == BenchmarksByBase(category_results)
  IN RowsOfBenchmarks(SortedBy(Keys(benchmarks), "str"), benchmarks)

(***************************************************************************)
(* analyze_scalability                                                     *)
(***************************************************************************)
\* f"{r.category}.{r.benchmark}"
ScalabilityKey(r) == r.category \o Dot \o r.benchmark

NoSeries == [sizes |-> <<>>, scores |-> <<>>]

\* scalability[key]['sizes'].append(r.size); ...['scores'].append(r.score)
RECURSIVE SeriesOf(_)
SeriesOf(rs) ==
  IF rs = <<>> THEN <<>>
  ELSE LET r == rs[Len(rs)]
           d == SeriesOf(SubSeq(rs, 1, Len(rs) - 1))
           s == GetDefault(d, ScalabilityKey(r), NoSeries)
       IN Put(d, ScalabilityKey(r),
              [sizes |-> Append(s.sizes, r.size), scores |-> Append(s.scores, r.score)])

\* sorted(zip(sizes, scores))
SortedData(s) == SortedBy([i \in DOMAIN s.sizes |-> <<s.sizes[i], s.scores[i]>>], "tuple")

\* curr_size / prev_size, or score_ratio / size_ratio, divides by zero
PairRaises(prev, curr) == prev[1] = 0 \/ curr[1] = 0

\* normalized_degradation of one consecutive pair
Degradation(prev, curr) ==
  LET size_ratio == RDiv(Num(curr[1]), Num(prev[1]))
      score_ratio == IF curr[2] > 0 THEN RDiv(Num(prev[2]), Num(curr[2])) ELSE Inf
  IN RDiv(score_ratio, size_ratio)

Degradations(sorted_data) ==
  [i \in 1..(Len(sorted_data) - 1) |-> Degradation(sorted_data[i], sorted_data[i + 1])]

\* The guard written "len(sizes) >= 1": a single point gets an empty
\* degradation list and the average 0.
AnalyzedFromOnePoint(s) ==
  IF Len(s.sizes) >= 1
  THEN LET sorted_data == SortedData(s)
           degradations == Degradations(sorted_data)
       IN [sizes |-> s.sizes,
           scores |-> s.scores,
           sorted_sizes |-> [i \in DOMAIN sorted_data |-> sorted_data[i][1]],
           sorted_scores |-> [i \in DOMAIN sorted_data |-> sorted_data[i][2]],
           degradations |-> degradations,
           avg_degradation |-> IF degradations # <<>> THEN Mean(degradations) ELSE Num(0)]
  ELSE s

\* The entry of one key after the second loop.
Analyzed(s) ==
  IF Len(s.sizes) > 1
  THEN LET sorted_data == SortedData(s)
           degradations == Degradations(sorted_data)
       IN [sizes |-> s.sizes,
           scores |-> s.scores,
           sorted_sizes |-> [i \in DOMAIN sorted_data |-> sorted_data[i][1]],
           sorted_scores |-> [i \in DOMAIN sorted_data |-> sorted_data[i][2]],
           degradations |-> degradations,
           avg_degradation |-> IF degradations # <<>> THEN Mean(degradations) ELSE Num(0)]
  ELSE s

\* Some key's loop over consecutive pairs raises ZeroDivisionError.
analyze_scalability_raises(rs) ==
  LET d == SeriesOf(rs)
  IN \E k \in DOMAIN d :
       /\ Len(d[k].val.sizes) > 1
       /\ LET sorted_data == SortedData(d[k].val)
          IN \E i \in 1..(Len(sorted_data) - 1) :
               PairRaises(sorted_data[i], sorted_data[i + 1])

\* The dictionary analyze_scalability returns when it raises nothing.
analyze_scalability(rs) ==
  LET d == SeriesOf(rs)
  IN [k \in DOMAIN d |-> [key |-> d[k].key, val |-> Analyzed(d[k].val)]]

(***************************************************************************)
(* print_scalability_analysis                                              *)
(***************************************************************************)
TopN == 20

BottomN == 10

\* 'avg_degradation' in v and len(v.get('sizes', [])) > 1
IsScalable(v) ==
  /\ "avg_degradation" \in DOMAIN v
  /\ Len(IF "sizes" \in DOMAIN v THEN v.sizes ELSE <<>>) > 1

\* bench_name.split('.')[0] and bench_name.split('.')[-1]
RECURSIVE SplitFirst(_)
SplitFirst(s) ==
  IF s = <<>> \/ Head(s) = "." THEN <<>> ELSE <<Head(s)>> \o SplitFirst(Tail(s))

RECURSIVE SplitLast(_)
SplitLast(s) ==
  IF s = <<>> \/ s[Len(s)] = "." THEN <<>>
  ELSE Append(SplitLast(SubSeq(s, 1, Len(s) - 1)), s[Len(s)])

Rating(degradation) ==
  IF Less(degradation, Rat(12, 10)) THEN 3
  ELSE IF Less(degradation, Num(2)) THEN 2
  ELSE 1

RankingLine(item) ==
  [category |-> SplitFirst(item[1]), bench_short |-> SplitLast(item[1]),
   degradation |-> item[2], rating |-> Rating(item[2])]

\* sorted(scalable_benchmarks.items(), key=lambda x: x[1]['avg_degradation'])
SortedBenchmarks(scal) ==
  LET scalable == SelectSeq(scal, LAMBDA e : IsScalable(e.val))
  IN SortedBy([i \in DOMAIN scalable |->
                 <<scalable[i].key, scalable[i].val.avg_degradation>>], "second")

\* The two printed lists: sorted_benchmarks[:20] and sorted_benchmarks[-10:]
print_scalability_analysis(scal) ==
  LET sorted_benchmarks == SortedBenchmarks(scal)
      n == Len(sorted_benchmarks)
      best == SubSeq(sorted_benchmarks, 1, IF n < TopN THEN n ELSE TopN)
      worst == SubSeq(sorted_benchmarks, IF n < BottomN THEN 1 ELSE n - BottomN + 1, n)
  IN [best |-> [i \in DOMAIN best |-> RankingLine(best[i])],
      worst |-> [i \in DOMAIN worst |-> RankingLine(worst[i])]]

(***************************************************************************)
(* The inputs                                                              *)
(***************************************************************************)
MaxRecords == 4

MaxSeries == 4

MaxFragments == 4

Map == <<"M", "a", "p">>
Zip == <<"Z", "i", "p">>
BaseGet == <<"G", "e", "t">>

Size200 == <<"2", "0", "0">>

Item(method, category, size, score) ==
  [method |-> method, category |-> category, size |-> size, score |-> score]

\* The benchmark files compared.  In the category Map at the default size:
\* our implementation, the reference one and an untagged method, with the
\* speedups -75, -50, -10, 0, +80, +100 and +inf.  In the category Zip at
\* the size 200: the two implementations, with the speedups -75, -50, 0
\* and +100.
CmpItems ==
  {Item(Our \o BaseGet, Map, Absent, s) : s \in {250, 900, 1000}}
  \cup {Item(RxJava \o BaseGet, Map, Absent, s) : s \in {0, 500, 1000}}
  \cup {Item(BaseGet, Map, Absent, 1000)}
  \cup {Item(Our \o BaseGet, Zip, Size200, s) : s \in {250, 1000}}
  \cup {Item(RxJava \o BaseGet, Zip, Size200, s) : s \in {500, 1000}}

\* The series analysed: our implementation at the sizes 0, 100 (the default)
\* and 200 with the scores 0, 500 and 1000, and the reference one at the
\* sizes 100 and 200.
SeriesItems ==
  {Item(Our \o BaseGet, Map, z, s) : z \in {<<"0">>, Absent, Size200}, s \in {0, 500, 1000}}
  \cup {Item(RxJava \o BaseGet, Map, z, s) : z \in {Absent, Size200}, s \in {500, 1000}}

\* Method names: up to MaxFragments pieces of the two tokens.
Fragments ==
  {<<"o">>, <<"u", "r">>, Our, <<"r", "x", "J">>, <<"a", "v", "a">>, RxJava, BaseGet}

RECURSIVE NamesOf(_)
NamesOf(n) ==
  IF n = 0 THEN {<<>>}
  ELSE LET shorter == NamesOf(n - 1)
       IN shorter \cup {s \o f : s \in shorter, f \in Fragments}

NamedItems == {Item(m, Map, Absent, 1000) : m \in NamesOf(MaxFragments)}

(***************************************************************************)
(* The state machine.  pc is "load" while load_results reads the file,     *)
(* "loaded" when it has returned, "compared" when compare_implementations  *)
(* has returned, and then the name of the function that ran last.  raised  *)
(* names the exception the function raised.  The functions main calls      *)
(* after compare_implementations read the record list and the comparisons  *)
(* and write nothing the others read, so each is applied on its own to     *)
(* every loaded list; an exception ends the run, as it does in main.       *)
(***************************************************************************)
NoSummary ==
  [wins |-> [our |-> 0, rxJava |-> 0, tie |-> 0], speedups |-> <<>>, total |-> 0,
   pct |-> <<>>, stats |-> <<>>]

NoRanking == [best |-> <<>>, worst |-> <<>>]

Init ==
  /\ pc = "load"
  /\ results = <<>>
  /\ comparisons = <<>>
  /\ scalability = <<>>
  /\ table = <<>>
  /\ summary = NoSummary
  /\ ranking = NoRanking
  /\ opportunities = <<>>
  /\ raised = "none"

\* load_results: results.append(BenchmarkResult(...))
LoadFrom(items, max) ==
  /\ pc = "load"
  /\ Len(results) < max
  /\ \E item \in items : results' = Append(results, BenchmarkResult(item))
  /\ UNCHANGED <<pc, comparisons, scalability, table, summary, ranking,
                 opportunities, raised>>

LoadItem == LoadFrom(CmpItems, MaxRecords)

LoadSeriesItem == LoadFrom(SeriesItems, MaxSeries)

LoadNamedItem == LoadFrom(NamedItems, 1)

\* load_results: return results
LoadReturn ==
  /\ pc = "load"
  /\ pc' = "loaded"
  /\ UNCHANGED <<results, comparisons, scalability, table, summary, ranking,
                 opportunities, raised>>

CompareImplementations ==
  /\ pc = "loaded"
  /\ comparisons' = compare_implementations(results)
  /\ pc' = "compared"
  /\ UNCHANGED <<results, scalability, table, summary, ranking, opportunities, raised>>

\* print_category_summary(category, by_category[category], all_comparisons)
PrintCategorySummary ==
  /\ pc = "compared"
  /\ \E category \in Categories(results) :
       table' = print_category_summary(group_by_category(results, category))
  /\ pc' = "print_category_summary"
  /\ UNCHANGED <<results, comparisons, scalability, summary, ranking,
                 opportunities, raised>>

PrintOverallSummary ==
  /\ pc = "compared"
  /\ summary' = print_overall_summary(comparisons)
  /\ raised' = IF print_overall_summary_raises(comparisons)
               THEN "ZeroDivisionError" ELSE "none"
  /\ pc' = "print_overall_summary"
  /\ UNCHANGED <<results, comparisons, scalability, table, ranking, opportunities>>

IdentifyOptimizationOpportunities ==
  /\ pc = "compared"
  /\ opportunities' = identify_optimization_opportunities(comparisons)
  /\ pc' = "identify_optimization_opportunities"
  /\ UNCHANGED <<results, comparisons, scalability, table, summary, ranking, raised>>

AnalyzeScalability ==
  /\ pc = "loaded"
  /\ IF analyze_scalability_raises(results)
     THEN raised' = "ZeroDivisionError" /\ scalability' = scalability
     ELSE raised' = "none" /\ scalability' = analyze_scalability(results)
  /\ pc' = "analyze_scalability"
  /\ UNCHANGED <<results, comparisons, table, summary, ranking, opportunities>>

PrintScalabilityAnalysis ==
  /\ pc = "analyze_scalability"
  /\ raised = "none"
  /\ ranking' = print_scalability_analysis(scalability)
  /\ pc' = "print_scalability_analysis"
  /\ UNCHANGED <<results, comparisons, scalability, table, summary, opportunities, raised>>

\* The comparison of the two implementations.
Next ==
  \/ LoadItem
  \/ LoadReturn
  \/ CompareImplementations
  \/ PrintCategorySummary
  \/ PrintOverallSummary
  \/ IdentifyOptimizationOpportunities

Spec == Init /\ [][Next]_vars

\* The scalability analysis.
NextScal ==
  \/ LoadSeriesItem
  \/ LoadReturn
  \/ AnalyzeScalability
  \/ PrintScalabilityAnalysis

SpecScal == Init /\ [][NextScal]_vars

\* The pairing key of one method name.
NextNames ==
  \/ LoadNamedItem
  \/ LoadReturn
  \/ CompareImplementations

SpecNames == Init /\ [][NextNames]_vars

(***************************************************************************)
(* The properties                                                          *)
(***************************************************************************)
Range(s) == {s[i] : i \in DOMAIN s}

\* The (category, base name, size) combination of a record, and the
\* combinations for which a record of an implementation was loaded.
PlaceOf(r) == <<r.category, StripBase(r.benchmark), r.size>>

PlacesOf(impl) ==
  {PlaceOf(results[i]) : i \in {j \in DOMAIN results : results[j].impl_type = impl}}

ComparablePlaces == PlacesOf("our") \cap PlacesOf("rxJava")

\* The record of an implementation that was loaded last for a combination.
LastOf(place, impl) ==
  LET at == {i \in DOMAIN results :
               PlaceOf(results[i]) = place /\ results[i].impl_type = impl}
  IN results[CHOOSE i \in at : \A j \in at : j <= i]

PlaceSpeedup(place) ==
  calculate_speedup(LastOf(place, "our").score, LastOf(place, "rxJava").score)

\* C1: the three counters of the aggregate summary partition the comparable
\* cells: each counter is the number of (category, base name, size)
\* combinations with both an 'our' and an 'rxJava' record whose speedup is
\* > 5, < -5, or neither, and their sum, the total, is the number of such
\* combinations; 'unknown' records and one-sided cells are counted nowhere.
C1_WinsPartitionComparableCells ==
  pc = "print_overall_summary" =>
    LET oursWin == {p \in ComparablePlaces : Less(Num(5), PlaceSpeedup(p))}
        referenceWin == {p \in ComparablePlaces : Less(PlaceSpeedup(p), Num(-5))}
        ties == (ComparablePlaces \ oursWin) \ referenceWin
    IN /\ oursWin \cap referenceWin = {}
       /\ summary.wins.our = Cardinality(oursWin)
       /\ summary.wins.rxJava = Cardinality(referenceWin)
       /\ summary.wins.tie = Cardinality(ties)
       /\ summary.total = Cardinality(ComparablePlaces)
       /\ summary.total = summary.wins.our + summary.wins.rxJava + summary.wins.tie

\* A summary of four records: one comparable cell, an 'unknown' record and a
\* cell with one implementation only.
C1_Witness ==
  /\ pc = "print_overall_summary"
  /\ Len(results) = 4
  /\ summary.total = 1
  /\ PlacesOf("unknown") # {}
  /\ PlacesOf("our") \ PlacesOf("rxJava") # {}

\* C2: the opportunity list is sorted ascending by speedup, holds only
\* speedups < -20, and holds exactly one entry, named
\* "{category}.{baseName} (size={size})", for every comparable cell whose
\* speedup is < -20 (so none for a zero reference score or a one-sided cell,
\* and none at all for the empty record list).
C2_OpportunitiesSortedAndExact ==
  pc = "identify_optimization_opportunities" =>
    LET regressions == {p \in ComparablePlaces : Less(PlaceSpeedup(p), Num(-20))}
        entry(p) == <<OpportunityName(p[1] \o Dot \o p[2], p[3]), PlaceSpeedup(p)>>
    IN /\ \A i, j \in DOMAIN opportunities :
            i < j => ~Less(opportunities[j][2], opportunities[i][2])
       /\ \A i \in DOMAIN opportunities : Less(opportunities[i][2], Num(-20))
       /\ Range(opportunities) = {entry(p) : p \in regressions}
       /\ Len(opportunities) = Cardinality(regressions)
       /\ results = <<>> => opportunities = <<>>

\* Two regressions of different severity.
C2_Witness ==
  /\ pc = "identify_optimization_opportunities"
  /\ Len(opportunities) = 2
  /\ opportunities[1][2] # opportunities[2][2]

\* C3: with no comparable cell the aggregate statistics resolve to an empty
\* result; the percentages over the zero total never raise.
C3_EmptySummaryDoesNotRaise ==
  (pc = "print_overall_summary" /\ summary.total = 0) => raised = "none"

\* C5: a cell with a zero reference score counts as an ours-win and is left
\* out of the mean and the median, which are finite whenever some cell has a
\* finite speedup.
C5_MeanAndMedianFinite ==
  pc = "print_overall_summary" =>
    /\ summary.wins.our >=
         Cardinality({p \in ComparablePlaces : LastOf(p, "rxJava").score = 0})
    /\ (\E p \in ComparablePlaces : ~PlaceSpeedup(p).inf) =>
         /\ summary.stats # <<>>
         /\ ~summary.stats[1].inf
         /\ ~summary.stats[2].inf

\* The complete lines of the printed table.
CompleteRows == {i \in DOMAIN table : table[i].our # <<>> /\ table[i].rxJava # <<>>}

\* C9: calculate_speedup never raises; it is 0 for equal nonzero scores,
\* +inf for a zero reference score, and (ours / r - 1) * 100 for a nonzero
\* reference score r: 1000 against 500 gives 100, an ours-win.
C9_SpeedupValues ==
  pc = "print_category_summary" =>
    /\ raised = "none"
    /\ \A i \in DOMAIN table :
         (i \in CompleteRows) = (table[i].speedup # <<>>)
    /\ \A i \in CompleteRows :
         LET ours == table[i].our[1]
             r == table[i].rxJava[1]
             speedup == table[i].speedup[1]
         IN /\ r = 0 => speedup = Inf
            /\ r # 0 => /\ ~speedup.inf
                        /\ speedup.num * r = (ours - r) * 100 * speedup.den
            /\ (r # 0 /\ ours = r) => speedup = Num(0)
            /\ (ours = 1000 /\ r = 500) =>
                 speedup = Num(100) /\ WinClass(speedup) = "our"

\* The table holds the speedup of 1000 against 500.
C9_Witness ==
  /\ pc = "print_category_summary"
  /\ \E i \in CompleteRows :
       table[i].our = <<1000>> /\ table[i].rxJava = <<500>>
       /\ table[i].speedup = <<Num(100)>>

\* C10: the winner of every complete line of the per-category table is the
\* class the aggregate summary gives the cell: ours for a speedup > 5, the
\* reference for a speedup < -5, and no winner within the band.
C10_TableWinnerIsSummaryClass ==
  pc = "print_category_summary" =>
    \A i \in CompleteRows :
      /\ (table[i].winner = "NUESTRA") = (WinClass(table[i].speedup[1]) = "our")
      /\ (table[i].winner = "RxJava") = (WinClass(table[i].speedup[1]) = "rxJava")

\* The records of a (category, raw benchmark name) key, and the keys loaded.
RecordsOfKey(key) == {i \in DOMAIN results : ScalabilityKey(results[i]) = key}

SeriesKeys == {ScalabilityKey(results[i]) : i \in DOMAIN results}

\* The degradation of a consecutive pair with a division by zero taken as
\* +inf: (prevScore / currScore) / (currSize / prevSize).
ExpectedDegradation(prev_size, prev_score, curr_size, curr_score) ==
  IF curr_score = 0 \/ prev_size = 0 \/ curr_size = 0 THEN Inf
  ELSE Rat(prev_score * prev_size, curr_score * curr_size)

\* C4: analyze_scalability completes for every record list with non-negative
\* sizes and scores, and a consecutive pair whose current score or previous
\* size is 0 gets the degradation +inf.
C4_ZeroDivisionGivesInfinity ==
  pc = "analyze_scalability" =>
    /\ raised = "none"
    /\ \A k \in DOMAIN scalability :
         LET v == scalability[k].val
         IN "degradations" \in DOMAIN v =>
              \A i \in DOMAIN v.degradations :
                (v.sorted_scores[i + 1] = 0 \/ v.sorted_sizes[i] = 0)
                  => v.degradations[i] = Inf

\* C7: every key with n >= 2 records gets its records in ascending order of
\* size and n - 1 degradations, the i-th being
\* (prevScore / currScore) / (currSize / prevSize) of the i-th consecutive
\* pair, and avg_degradation their mean; a series whose score halves as its
\* size doubles has the degradation 1; the series of 'our' and 'rxJava'
\* methods are separate.
C7_DegradationsOfEverySeries ==
  pc = "analyze_scalability" =>
    \A key \in SeriesKeys :
      LET n == Cardinality(RecordsOfKey(key))
      IN n >= 2 =>
           /\ HasKey(scalability, key)
           /\ LET v == Get(scalability, key)
              IN /\ DOMAIN v = {"sizes", "scores", "sorted_sizes", "sorted_scores",
                                "degradations", "avg_degradation"}
                 /\ Len(v.sorted_sizes) = n
                 /\ \A i \in 1..(n - 1) : v.sorted_sizes[i] <= v.sorted_sizes[i + 1]
                 /\ \A i \in RecordsOfKey(key) :
                      Cardinality({j \in 1..n : v.sorted_sizes[j] = results[i].size
                                                /\ v.sorted_scores[j] = results[i].score})
                      = Cardinality({j \in RecordsOfKey(key) :
                                       results[j].size = results[i].size
                                       /\ results[j].score = results[i].score})
                 /\ Len(v.degradations) = n - 1
                 /\ \A i \in 1..(n - 1) :
                      v.degradations[i] =
                        ExpectedDegradation(v.sorted_sizes[i], v.sorted_scores[i],
                                            v.sorted_sizes[i + 1], v.sorted_scores[i + 1])
                 /\ v.avg_degradation = Mean(v.degradations)
                 /\ (\A i \in 1..(n - 1) :
                       /\ v.sorted_sizes[i + 1] = 2 * v.sorted_sizes[i]
                       /\ v.sorted_scores[i] = 2 * v.sorted_scores[i + 1]
                       /\ v.sorted_scores[i + 1] > 0 /\ v.sorted_sizes[i] > 0)
                    => /\ \A i \in 1..(n - 1) : v.degradations[i] = Num(1)
                       /\ v.avg_degradation = Num(1)

C6_StrippingIdempotentAndOrderIndependent ==
  pc = "compared" =>
    \A i \in DOMAIN results :
      LET name == results[i].benchmark
          base == StripBase(name)
      IN /\ HasKey(comparisons, results[i].category \o Dot \o base)
         /\ Replace(Replace(name, RxJava), Our) = base
         /\ StripBase(base) = base
         /\ (Replace(name, Our) = name /\ Replace(name, RxJava) = name) => base = name

====
